---- MODULE Spec2Model ----
(***************************************************************************)
(* HecateJS revert module: the inverse calculator (inverse), the cache     *)
(* pipeline (cache, createCache) and the reversion stream iterator         *)
(* (iterate).                                                              *)
(*                                                                         *)
(* SpecInverse applies inverse() to histories and target versions drawn    *)
(* from bounded sets.  Spec runs cache() over a delta range against a      *)
(* remote API and then iterate() over the returned database.               *)
(***************************************************************************)
EXTENDS Integers, Sequences, FiniteSets, TLC

\* ------------------------------------------------------------------ bounds
\* longest feature history handed to inverse()
MaxLen == 3

\* ------------------------------------------------------------- JS values
\* feature.version: 0 stands for a falsy version (0 or a missing field)
Versions == {0, 1, 2, 3}
\* feature.action: "other" stands for any value outside the four actions
Actions == {"create", "modify", "delete", "restore", "other"}

\* one element of a feature history; the k-th element handed in carries
\* its own properties and geometry
Feature(id, ver, act, k) ==
    [id |-> id, version |-> ver, action |-> act,
     properties |-> k, geometry |-> 10 + k]

\* the histories of n elements of feature id, versions and actions drawn
\* from vers and acts
HistoriesOfLen(id, n, vers, acts) ==
    { [k \in 1..n |-> Feature(id, va[k][1], va[k][2], k)] :
        va \in [1..n -> vers \X acts] }


\* the `version` argument: a number, or undefined, or a non-numeric value
Num(n) == [tag |-> "number", n |-> n]
Undefined == [tag |-> "undefined", n |-> 0]
NotNumeric == [tag |-> "NaN", n |-> 0]
TargetVersions == { Num(n) : n \in (0 - 1)..(MaxLen + 1) } \cup {Undefined, NotNumeric}

\* JS null in properties / geometry
Null == 0

\* JSON.stringify and JSON.parse: the text of a value, and the value of a text
JSONstringify(value) == [json |-> value]
JSONparse(text) == text.json

\* ------------------------------------------------------------ inverse()
\* (a.version ? a.version : 1)
SortKey(feat) == IF feat.version # 0 THEN feat.version ELSE 1

\* Array.prototype.sort with the comparator of line 50: a stable sort,
\* written as the insertion of each element after the elements whose key
\* is not greater.
RECURSIVE InsertSorted(_, _)
InsertSorted(feat, sorted) ==
    IF sorted = <<>> THEN <<feat>>
    ELSE IF SortKey(feat) < SortKey(Head(sorted))
         THEN <<feat>> \o sorted
         ELSE <<Head(sorted)>> \o InsertSorted(feat, Tail(sorted))

NoSort(h) == h

RECURSIVE SortByVersion(_)
SortByVersion(h) ==
    IF h = <<>> THEN <<>>
    ELSE InsertSorted(h[Len(h)], SortByVersion(SubSeq(h, 1, Len(h) - 1)))

\* outcomes of a call
NoValue == [id |-> 0, type |-> "", action |-> "", version |-> 0,
            properties |-> Null, geometry |-> Null]
Threw(err) == [threw |-> err, value |-> NoValue]
Returned(val) == [threw |-> "", value |-> val]
Pending == [threw |-> "pending", value |-> NoValue]

\* !version || isNaN(version)
VersionIsEmpty(version) == version.tag # "number" \/ version.n = 0

\* version > history.length
VersionTooHigh(sorted, version) == version.n > Len(sorted)

\* history.length >= 1 && history[0].action !== 'create'
LastNotCreate(sorted) == Len(sorted) >= 1 /\ sorted[Len(sorted)].action # "create"
MissingCreate(sorted) == Len(sorted) >= 1 /\ sorted[1].action # "create"

\* version < history.length
DirtyRevertOffByOne(sorted, version) == version.n < Len(sorted) - 1
DirtyRevert(sorted, version) == version.n < Len(sorted)

\* the record returned for a history of length 1 (lines 72-81)
DeleteCreatedCopy(feat) ==
    [id |-> feat.id, action |-> "delete", version |-> feat.version,
     type |-> "Feature", properties |-> feat.properties, geometry |-> feat.geometry]
DeleteCreated(feat) ==
    [id |-> feat.id, action |-> "delete", version |-> 1,
     type |-> "Feature", properties |-> Null, geometry |-> Null]

\* history[version - 2] and history[version - 1] (arrays count from 0)
DesiredIsLatest(sorted, version) == sorted[version.n]
Desired(sorted, version) == sorted[version.n - 1]
Latest(sorted, version) == sorted[version.n]

\* the action that undoes latest.action (lines 86-95); "" when unsupported
InverseActionOfCreate(act) ==
    CASE act = "modify" -> "modify"
      [] act = "delete" -> "restore"
      [] act = "restore" -> "delete"
      [] act = "create" -> "delete"
      [] OTHER -> ""
InverseAction(act) ==
    CASE act = "modify" -> "modify"
      [] act = "delete" -> "restore"
      [] act = "restore" -> "delete"
      [] OTHER -> ""

\* lines 82-105; an index outside the array reads undefined, and reading a
\* field of undefined throws a TypeError
RevertLatest(sorted, version) ==
    LET desired == Desired(sorted, version)
        latest == Latest(sorted, version)
    IN IF version.n \notin DOMAIN sorted THEN Threw("TypeError")
       ELSE IF InverseAction(latest.action) = "" THEN Threw("UnsupportedAction")
       ELSE IF version.n - 1 \notin DOMAIN sorted THEN Threw("TypeError")
       ELSE Returned([id |-> latest.id, type |-> "Feature",
                      action |-> InverseAction(latest.action),
                      version |-> latest.version,
                      properties |-> desired.properties,
                      geometry |-> desired.geometry])

\* lines 54-105, on the sorted history
InverseOutcomeDirtyFirst(sorted, version) ==
    IF VersionIsEmpty(version) THEN Threw("InvalidVersion")
    ELSE IF VersionTooHigh(sorted, version) THEN Threw("VersionOutOfRange")
    ELSE IF DirtyRevert(sorted, version) THEN Threw("DirtyRevertUnsupported")
    ELSE IF MissingCreate(sorted) THEN Threw("MissingCreateAction")
    ELSE IF Len(sorted) = 1 THEN Returned(DeleteCreated(sorted[1]))
    ELSE RevertLatest(sorted, version)
InverseOutcome(sorted, version) ==
    IF VersionIsEmpty(version) THEN Threw("InvalidVersion")
    ELSE IF VersionTooHigh(sorted, version) THEN Threw("VersionOutOfRange")
    ELSE IF MissingCreate(sorted) THEN Threw("MissingCreateAction")
    ELSE IF DirtyRevert(sorted, version) THEN Threw("DirtyRevertUnsupported")
    ELSE IF Len(sorted) = 1 THEN Returned(DeleteCreated(sorted[1]))
    ELSE RevertLatest(sorted, version)

\* inverse(history, version): the outcome, and the contents of the caller's
\* array afterwards (sort() sorts the array in place and returns it)
InverseVersionFirst(h, version) ==
    IF VersionIsEmpty(version)
    THEN [outcome |-> Threw("InvalidVersion"), history |-> h]
    ELSE IF Len(h) = 0
    THEN [outcome |-> Threw("EmptyHistory"), history |-> h]
    ELSE [outcome |-> InverseOutcome(SortByVersion(h), version),
          history |-> SortByVersion(h)]
Inverse(h, version) ==
    IF Len(h) = 0
    THEN [outcome |-> Threw("EmptyHistory"), history |-> h]
    ELSE [outcome |-> InverseOutcome(SortByVersion(h), version),
          history |-> SortByVersion(h)]


\* ------------------------------------------------------------ the remote
\* largest delta id of the range
MaxDelta == 2
\* most features listed by one delta
MaxFeats == 2

EntityIds == {1, 2}
DeltaVersions == {1, 2}

RECURSIVE SeqsUpTo(_, _)
SeqsUpTo(S, n) ==
    IF n = 0 THEN {<<>>}
    ELSE SeqsUpTo(S, n - 1) \cup
         { Append(q, x) : q \in { r \in SeqsUpTo(S, n - 1) : Len(r) = n - 1 }, x \in S }

\* delta.features.features of a getDelta answer
DeltaAnswers == SeqsUpTo([id : EntityIds, version : DeltaVersions], MaxFeats)

\* a getFeatureHistory answer: a list of { feat: ... } wrappers
Wrap(h) == [k \in 1..Len(h) |-> [feat |-> h[k]]]
Unwrap(w) == [k \in 1..Len(w) |-> w[k].feat]
HistoryAnswers(id) ==
    { Wrap(h) : h \in { <<Feature(id, 1, "create", 1)>>,
                        <<Feature(id, 1, "modify", 1)>>,
                        <<Feature(id, 1, "create", 1), Feature(id, 2, "modify", 2)>>,
                        <<Feature(id, 2, "delete", 1), Feature(id, 1, "create", 2)>> } }

\* ------------------------------------------------------------------ state
VARIABLES
    history,      \* inverse(): the caller's array
    version,      \* inverse(): the version argument
    given,        \* inverse(): the array's contents when the call was made
    outcome,      \* inverse(): what the call threw or returned
    pc,           \* where the run of cache() / iterate() stands
    options,      \* cache(): options.start, options.end
    i,            \* cache(): the delta loop's counter
    delta,        \* cache(): delta.features.features of the current delta
    j,            \* cache(): position of the feature loop in delta
    db,           \* the features table: id -> [version, history]
    outstanding,  \* remote calls issued and not yet answered
    trace,        \* remote calls, their answers and the inserts, in order
    answers,      \* the getDelta answers received, in order
    fetched,      \* the getFeatureHistory answers received, in order
    error,        \* what cache() or iterate() ended with, "" if nothing
    scanned,      \* iterate(): ids of the rows already read
    sink,         \* the lines written to the stream
    files,        \* the sqlite files in /tmp: token of the name -> creator, rows
    runs          \* concurrent runs: what createCache() gave each of them

inverseVars == <<history, version, given, outcome>>
pipelineVars == <<pc, options, i, delta, j, db, outstanding, trace, answers,
                  fetched, error, scanned, sink>>
storeVars == <<files, runs>>
vars == <<history, version, given, outcome, pc, options, i, delta, j, db,
          outstanding, trace, answers, fetched, error, scanned, sink, files, runs>>

EmptyDb == [id \in {} |-> [version |-> 0, history |-> JSONstringify(<<>>)]]

PipelineIdle ==
    /\ pc = "idle"
    /\ options = [start |-> 1, end |-> 0]
    /\ i = 0
    /\ delta = <<>>
    /\ j = 0
    /\ db = EmptyDb
    /\ outstanding = {}
    /\ trace = <<>>
    /\ answers = <<>>
    /\ fetched = <<>>
    /\ error = ""
    /\ scanned = {}
    /\ sink = <<>>

\* the runs that share /tmp, and the values of
\* Math.random().toString(36).substring(7); "" is what 0.5 ("0.i") gives
Runs == {1, 2}
RandomTokens == {"", "k2q9", "zb71x"}

NoFiles == [t \in {} |-> [creator |-> 0, rows |-> {}]]

StoresIdle ==
    /\ files = NoFiles
    /\ runs = [r \in Runs |-> [state |-> "idle", token |-> ""]]

InverseIdle ==
    /\ history = <<>>
    /\ version = Undefined
    /\ given = <<>>
    /\ outcome = Pending

\* ----------------------------------------------------- inverse(): harness
InitInverse ==
    /\ \E n \in 0..MaxLen : history \in HistoriesOfLen(1, n, Versions, Actions)
    /\ version \in TargetVersions
    /\ given = history
    /\ outcome = Pending
    /\ PipelineIdle
    /\ StoresIdle

\* const inv = inverse(history, version)
CallInverse ==
    /\ outcome = Pending
    /\ outcome' = Inverse(history, version).outcome
    /\ history' = Inverse(history, version).history
    /\ UNCHANGED <<version, given>>
    /\ UNCHANGED pipelineVars
    /\ UNCHANGED storeVars

NextInverse == CallInverse

SpecInverse == InitInverse /\ [][NextInverse]_vars


\* ------------------------------------------------------ cache(), iterate()
Init == InverseIdle /\ PipelineIdle /\ StoresIdle

\* one remote call, and the events of the trace
Call(op, arg) == [op |-> op, arg |-> arg]
Event(ev, op, arg) == [ev |-> ev, op |-> op, arg |-> arg]

\* the loop condition of line 158
InRangeExclusive(n, end) == n < end
InRange(n, end) == n <= end

\* What cache() does from the head of the feature loop (line 163) with delta
\* i = di, features d and position dj, up to its next await or its return:
\* the next getFeatureHistory of this delta, else the getDelta of the next
\* delta, else `return db`.
Continue(end, di, d, dj, tr) ==
    IF dj <= Len(d)
    THEN /\ i' = di /\ delta' = d /\ j' = dj
         /\ outstanding' = {Call("getFeatureHistory", d[dj].id)}
         /\ trace' = Append(tr, Event("call", "getFeatureHistory", d[dj].id))
         /\ pc' = "awaitHistory"
    ELSE IF InRange(di + 1, end)
    THEN /\ i' = di + 1 /\ delta' = <<>> /\ j' = 0
         /\ outstanding' = {Call("getDelta", di + 1)}
         /\ trace' = Append(tr, Event("call", "getDelta", di + 1))
         /\ pc' = "awaitDelta"
    ELSE /\ i' = di + 1 /\ delta' = <<>> /\ j' = 0
         /\ outstanding' = {}
         /\ trace' = tr
         /\ pc' = "cached"

\* cache(options, api) up to its first await: createCache(), prepare, and
\* the first turn of the delta loop; the file name is one no other run has
\* (SpecStores has the runs that share a name)
CallCache ==
    /\ pc = "idle"
    /\ \E start \in 1..MaxDelta : \E end \in (start - 1)..MaxDelta :
          /\ options' = [start |-> start, end |-> end]
          /\ Continue(end, start - 1, <<>>, 1, trace)
    /\ db' = EmptyDb
    /\ UNCHANGED <<answers, fetched, error, scanned, sink>>
    /\ UNCHANGED inverseVars
    /\ UNCHANGED storeVars

\* the INSERT of line 154 on a table whose id column is the primary key:
\* the row is added, unless a row with that id is there
InsertNeverFails(table, id) == FALSE
InsertFails(table, id) == id \in DOMAIN table
InsertedHistoryLength(table, id, ver, text) ==
    [k \in DOMAIN table \cup {id} |->
        IF k = id THEN [version |-> Len(JSONparse(text)), history |-> text]
        ELSE table[k]]
Inserted(table, id, ver, text) ==
    [k \in DOMAIN table \cup {id} |->
        IF k = id THEN [version |-> ver, history |-> text] ELSE table[k]]

\* getDelta calls back with a delta (line 159), and cache() goes on to its
\* next await or its return
GetDeltaOkSkipsFirst ==
    /\ pc = "awaitDelta"
    /\ \E feats \in DeltaAnswers :
          /\ answers' = Append(answers, feats)
          /\ Continue(options.end, i, feats, 2,
                      Append(trace, Event("done", "getDelta", i)))
    /\ UNCHANGED <<options, db, fetched, error, scanned, sink>>
    /\ UNCHANGED inverseVars
    /\ UNCHANGED storeVars
GetDeltaOk ==
    /\ pc = "awaitDelta"
    /\ \E feats \in DeltaAnswers :
          /\ answers' = Append(answers, feats)
          /\ Continue(options.end, i, feats, 1,
                      Append(trace, Event("done", "getDelta", i)))
    /\ UNCHANGED <<options, db, fetched, error, scanned, sink>>
    /\ UNCHANGED inverseVars
    /\ UNCHANGED storeVars

\* getDelta or getFeatureHistory calls back with an error: the await throws
\* and cache() rejects
RemoteFailsSwallowed ==
    /\ pc \in {"awaitDelta", "awaitHistory"}
    /\ pc' = "cached"
    /\ error' = "RemoteFetchError"
    /\ outstanding' = {}
    /\ UNCHANGED <<options, i, delta, j, db, trace, answers, fetched, scanned, sink>>
    /\ UNCHANGED inverseVars
    /\ UNCHANGED storeVars
RemoteFails ==
    /\ pc \in {"awaitDelta", "awaitHistory"}
    /\ pc' = "cacheFailed"
    /\ error' = "RemoteFetchError"
    /\ outstanding' = {}
    /\ UNCHANGED <<options, i, delta, j, db, trace, answers, fetched, scanned, sink>>
    /\ UNCHANGED inverseVars
    /\ UNCHANGED storeVars

\* getFeatureHistory calls back with a history (line 164); stmt.run inserts
\* the row (line 168) and cache() goes on, or stmt.run throws and cache()
\* rejects
GetHistoryOk ==
    /\ pc = "awaitHistory"
    /\ \E hist \in HistoryAnswers(delta[j].id) :
        LET feat == delta[j]
            done == Append(trace, Event("done", "getFeatureHistory", feat.id))
        IN /\ fetched' = Append(fetched, [id |-> feat.id, version |-> feat.version,
                                          history |-> hist])
           /\ IF InsertFails(db, feat.id)
              THEN /\ pc' = "cacheFailed"
                   /\ error' = "StoreWriteError"
                   /\ outstanding' = {}
                   /\ trace' = done
                   /\ UNCHANGED <<i, delta, j, db>>
              ELSE /\ db' = Inserted(db, feat.id, feat.version, JSONstringify(hist))
                   /\ Continue(options.end, i, delta, j + 1,
                               Append(done, Event("put", "run", feat.id)))
                   /\ UNCHANGED error
    /\ UNCHANGED <<options, answers, scanned, sink>>
    /\ UNCHANGED inverseVars
    /\ UNCHANGED storeVars

\* the rows iterate() has not read yet; the scan is in primary key order
Unread == DOMAIN db \ scanned
NextRowLast == CHOOSE id \in Unread : \A other \in Unread : id >= other
NextRow == CHOOSE id \in Unread : \A other \in Unread : id <= other

\* one turn of the loop of iterate() (lines 125-133)
IterateRowSkipsFailure ==
    /\ pc \in {"cached", "iterating"}
    /\ Unread # {}
    /\ LET row == db[NextRow]
           hist == Unwrap(JSONparse(row.history))
           inv == Inverse(hist, Num(row.version)).outcome
       IN IF inv.threw # ""
          THEN /\ pc' = "iterating"
               /\ UNCHANGED <<error, sink>>
          ELSE /\ pc' = "iterating"
               /\ sink' = Append(sink, JSONstringify(inv.value))
               /\ UNCHANGED error
    /\ scanned' = scanned \cup {NextRow}
    /\ UNCHANGED <<options, i, delta, j, db, outstanding, trace, answers, fetched>>
    /\ UNCHANGED inverseVars
    /\ UNCHANGED storeVars
IterateRowConsumes ==
    /\ pc \in {"cached", "iterating"}
    /\ Unread # {}
    /\ LET row == db[NextRow]
           hist == Unwrap(JSONparse(row.history))
           inv == Inverse(hist, Num(row.version)).outcome
       IN IF inv.threw # ""
          THEN /\ pc' = "iterateFailed"
               /\ error' = inv.threw
               /\ UNCHANGED sink
          ELSE /\ pc' = "iterating"
               /\ sink' = Append(sink, JSONstringify(inv.value))
               /\ UNCHANGED error
    /\ scanned' = scanned \cup {NextRow}
    /\ db' = [id \in DOMAIN db \ {NextRow} |-> db[id]]
    /\ UNCHANGED <<options, i, delta, j, outstanding, trace, answers, fetched>>
    /\ UNCHANGED inverseVars
    /\ UNCHANGED storeVars
IterateRow ==
    /\ pc \in {"cached", "iterating"}
    /\ Unread # {}
    /\ LET row == db[NextRow]
           hist == Unwrap(JSONparse(row.history))
           inv == Inverse(hist, Num(row.version)).outcome
       IN IF inv.threw # ""
          THEN /\ pc' = "iterateFailed"
               /\ error' = inv.threw
               /\ UNCHANGED sink
          ELSE /\ pc' = "iterating"
               /\ sink' = Append(sink, JSONstringify(inv.value))
               /\ UNCHANGED error
    /\ scanned' = scanned \cup {NextRow}
    /\ UNCHANGED <<options, i, delta, j, db, outstanding, trace, answers, fetched>>
    /\ UNCHANGED inverseVars
    /\ UNCHANGED storeVars

\* the cursor is exhausted and iterate() returns
IterateReturn ==
    /\ pc \in {"cached", "iterating"}
    /\ Unread = {}
    /\ pc' = "iterated"
    /\ UNCHANGED <<options, i, delta, j, db, outstanding, trace, answers, fetched,
                   error, scanned, sink>>
    /\ UNCHANGED inverseVars
    /\ UNCHANGED storeVars

Next ==
    \/ CallCache
    \/ GetDeltaOk
    \/ GetHistoryOk
    \/ RemoteFails
    \/ IterateRow
    \/ IterateReturn

Spec == Init /\ [][Next]_vars

\* a remote call that is outstanding is answered in the end
SpecLive == Spec /\ WF_vars(GetDeltaOk \/ GetHistoryOk \/ RemoteFails)


\* ------------------------------------------------- inverse(): properties
\* the call has been made
Called == outcome # Pending

\* the version as the sort reads it: a missing or 0 version counts as 1
VersionOrOne(feat) == IF feat.version = 0 THEN 1 ELSE feat.version

\* index of the record that comes first in ascending version order, input
\* order kept among equal versions
FirstIndex(h) ==
    CHOOSE k \in 1..Len(h) :
        \A m \in 1..Len(h) :
            \/ VersionOrOne(h[k]) < VersionOrOne(h[m])
            \/ VersionOrOne(h[k]) = VersionOrOne(h[m]) /\ k <= m

\* versions are positive and no two records share one (EntityHistory)
UniqueVersions(h) ==
    /\ \A k \in 1..Len(h) : h[k].version > 0
    /\ \A k, m \in 1..Len(h) : k # m => h[k].version # h[m].version

\* no two records sort alike
DistinctSortKeys(h) ==
    \A k, m \in 1..Len(h) : k # m => VersionOrOne(h[k]) # VersionOrOne(h[m])

\* index of the record with the highest version, and of the one before it
LatestIndex(h) ==
    CHOOSE k \in 1..Len(h) : \A m \in 1..Len(h) : h[m].version <= h[k].version
PreviousIndex(h) ==
    CHOOSE k \in 1..Len(h) \ {LatestIndex(h)} :
        \A m \in 1..Len(h) \ {LatestIndex(h)} : h[m].version <= h[k].version

\* the rearrangements of h
Rearrangements(h) ==
    { [k \in 1..Len(h) |-> h[f[k]]] :
        f \in { g \in [1..Len(h) -> 1..Len(h)] :
                  \A a, b \in 1..Len(h) : a # b => g[a] # g[b] } }

\* h is in ascending order of version
Ascending(h) ==
    \A k \in 1..(Len(h) - 1) : VersionOrOne(h[k]) <= VersionOrOne(h[k + 1])

\* C3 (as stated): whenever the history is non-empty and the target version
\* is below its length, inverse fails with DirtyRevertUnsupported.
C3_DirtyWheneverBelowLength ==
    (Called /\ Len(given) > 0 /\ version.tag = "number" /\ version.n < Len(given))
        => outcome = Threw("DirtyRevertUnsupported")

\* C3 (amended): when the record first in version order is a create and the
\* target version is a non-zero number below the history's length, inverse
\* fails with DirtyRevertUnsupported and returns nothing.
C3_DirtyAfterCreateCheck ==
    (/\ Called
     /\ Len(given) > 0
     /\ given[FirstIndex(given)].action = "create"
     /\ version.tag = "number" /\ version.n # 0 /\ version.n < Len(given))
        => outcome = Threw("DirtyRevertUnsupported")

C3_Witness ==
    /\ Called
    /\ Len(given) = 3
    /\ given[FirstIndex(given)].action = "create"
    /\ FirstIndex(given) = 3
    /\ version = Num(2)
    /\ outcome = Threw("DirtyRevertUnsupported")

\* C4 (as stated): whenever the record first in version order is not a
\* create, inverse fails with MissingCreateAction, for every target version.
C4_MissingCreateForEveryVersion ==
    (Called /\ Len(given) > 0 /\ given[FirstIndex(given)].action # "create")
        => outcome = Threw("MissingCreateAction")

\* C4 (amended): when the record first in version order (a missing or 0
\* version counting as 1, input order kept among equal versions) is not a
\* create and the target version is a non-zero number not above the
\* history's length, inverse fails with MissingCreateAction.
C4_MissingCreateInRange ==
    (/\ Called
     /\ Len(given) > 0
     /\ given[FirstIndex(given)].action # "create"
     /\ version.tag = "number" /\ version.n # 0 /\ version.n <= Len(given))
        => outcome = Threw("MissingCreateAction")

C4_Witness ==
    /\ Called
    /\ Len(given) = 2
    /\ FirstIndex(given) = 2
    /\ given[2].action = "modify"
    /\ given[1].action = "create"
    /\ version = Num(1)
    /\ outcome = Threw("MissingCreateAction")

\* C5: on an empty history inverse fails with EmptyHistory whatever the
\* target version is (missing, zero, non-numeric, out of range).
C5_EmptyHistoryFirst ==
    (Called /\ given = <<>>) => outcome = Threw("EmptyHistory")

C5_Witness ==
    /\ Called
    /\ given = <<>>
    /\ version = NotNumeric
    /\ outcome = Threw("EmptyHistory")

\* C6: for a history of two or more records with unique versions whose
\* lowest-version record is a create, target version = length and the latest
\* record a modify, delete or restore, inverse returns the properties and
\* geometry of the record just before the latest in version order, the
\* action modify / restore / delete, the latest record's id and version,
\* and type "Feature".
C6_RevertsToPrevious ==
    (/\ Called
     /\ Len(given) >= 2
     /\ UniqueVersions(given)
     /\ given[FirstIndex(given)].action = "create"
     /\ version = Num(Len(given))
     /\ given[LatestIndex(given)].action \in {"modify", "delete", "restore"})
        => LET latest == given[LatestIndex(given)]
               previous == given[PreviousIndex(given)]
           IN /\ outcome.threw = ""
              /\ outcome.value.properties = previous.properties
              /\ outcome.value.geometry = previous.geometry
              /\ latest.action = "modify" => outcome.value.action = "modify"
              /\ latest.action = "delete" => outcome.value.action = "restore"
              /\ latest.action = "restore" => outcome.value.action = "delete"
              /\ outcome.value.id = latest.id
              /\ outcome.value.version = latest.version
              /\ outcome.value.type = "Feature"

C6_Witness ==
    /\ Called
    /\ Len(given) = 3
    /\ UniqueVersions(given)
    /\ LatestIndex(given) = 1
    /\ PreviousIndex(given) = 3
    /\ given[2].action = "create"
    /\ given[1].action = "delete"
    /\ version = Num(3)
    /\ outcome.threw = ""
    /\ outcome.value.action = "restore"
    /\ outcome.value.properties = given[3].properties

\* C7: for a history of one create record, inverse(h, 1) returns the delete
\* of that id with version 1 and null properties and geometry, whatever the
\* record's own version, properties and geometry.
C7_CreatedIsDeleted ==
    (Called /\ Len(given) = 1 /\ given[1].action = "create" /\ version = Num(1))
        => outcome = Returned([id |-> given[1].id, action |-> "delete",
                               version |-> 1, type |-> "Feature",
                               properties |-> Null, geometry |-> Null])

C7_Witness ==
    /\ Called
    /\ Len(given) = 1
    /\ given[1].action = "create"
    /\ given[1].version = 3
    /\ given[1].properties # Null
    /\ version = Num(1)
    /\ outcome.threw = ""
    /\ outcome.value.version = 1
    /\ outcome.value.properties = Null

\* C8 (as stated): for every history, also with missing, 0 or duplicated
\* versions, inverse gives the outcome it gives on the history sorted
\* ascending by version.
C8_SameAsOnSorted ==
    Called => \A s \in Rearrangements(given) :
                  Ascending(s) => outcome = Inverse(s, version).outcome

\* C8 (amended): for every history in which no two records sort alike (a
\* missing or 0 version counting as 1), inverse gives the outcome it gives
\* on the history sorted ascending by version.
C8_SameAsOnSortedDistinct ==
    (Called /\ DistinctSortKeys(given))
        => \A s \in Rearrangements(given) :
               Ascending(s) => outcome = Inverse(s, version).outcome

C8_Witness ==
    /\ Called
    /\ Len(given) = 3
    /\ DistinctSortKeys(given)
    /\ ~Ascending(given)
    /\ given[3].version = 0
    /\ version = Num(3)
    /\ outcome.threw = ""

\* C9 (as stated): a call of inverse leaves the caller's history as it was.
C9_InputUnchanged ==
    Called => history = given


\* --------------------------------------------- cache(), iterate(): properties
\* cache() or iterate() has ended, one way or the other
RunOver == pc \in {"cacheFailed", "iterated", "iterateFailed"}

\* the entity ids the fetched deltas list
ListedIn(k) == { answers[k][m].id : m \in 1..Len(answers[k]) }
ReferencedIds == UNION { ListedIn(k) : k \in 1..Len(answers) }

\* every history fetched so far can be inverted at the version its delta gave
FetchedValid ==
    \A k \in 1..Len(fetched) :
        Inverse(Unwrap(fetched[k].history), Num(fetched[k].version)).outcome.threw = ""

\* C1 (as stated): when every remote call succeeds and every fetched history
\* is valid for its delta's version, cache then iterate ends with exactly one
\* line per distinct entity id of the range's deltas in the sink, also when
\* an id is listed more than once.
C1_OneLinePerEntity ==
    (RunOver /\ error # "RemoteFetchError" /\ FetchedValid)
        => /\ pc = "iterated"
           /\ Len(sink) = Cardinality(ReferencedIds)
           /\ { JSONparse(sink[k]).id : k \in 1..Len(sink) } = ReferencedIds

\* the positions in fetched of the histories of entity id
Occurrences(id) == { k \in 1..Len(fetched) : fetched[k].id = id }
LastOccurrence(id) ==
    CHOOSE k \in Occurrences(id) : \A m \in Occurrences(id) : m <= k

\* C2 (as stated): when an entity's history has been fetched a second time,
\* the put succeeds and the store's row for the id holds the version and the
\* history of the last occurrence.
C2_LastWriteWins ==
    \A id \in EntityIds :
        Cardinality(Occurrences(id)) >= 2
            => /\ error # "StoreWriteError"
               /\ id \in DOMAIN db
               /\ db[id] = [version |-> fetched[LastOccurrence(id)].version,
                            history |-> JSONstringify(fetched[LastOccurrence(id)].history)]

\* the events cache() makes for the features of one delta, and for the
\* deltas answered so far
RECURSIVE FeatureEvents(_)
FeatureEvents(feats) ==
    IF feats = <<>> THEN <<>>
    ELSE << Event("call", "getFeatureHistory", Head(feats).id),
            Event("done", "getFeatureHistory", Head(feats).id),
            Event("put", "run", Head(feats).id) >> \o FeatureEvents(Tail(feats))

RECURSIVE ExpectedTrace(_, _)
ExpectedTrace(n, ans) ==
    IF ans = <<>> THEN <<>>
    ELSE << Event("call", "getDelta", n), Event("done", "getDelta", n) >>
         \o FeatureEvents(Head(ans)) \o ExpectedTrace(n + 1, Tail(ans))

IsPrefix(a, b) == Len(a) <= Len(b) /\ a = SubSeq(b, 1, Len(a))

\* C10: at most one remote call is outstanding; the calls, their answers and
\* the puts follow iteration order (getDelta start, then per listed feature
\* getFeatureHistory, its answer and its put, then getDelta start+1, ...);
\* an outstanding call is the last event; and when cache returns, getDelta
\* has been called for exactly start..end.
C10_Sequential ==
    /\ Cardinality(outstanding) <= 1
    /\ IsPrefix(trace, ExpectedTrace(options.start, answers)
                       \o << Event("call", "getDelta", options.start + Len(answers)) >>)
    /\ \A c \in outstanding :
          trace # <<>> /\ trace[Len(trace)] = Event("call", c.op, c.arg)
    /\ pc \in {"cached", "iterating", "iterated", "iterateFailed"}
          => /\ trace = ExpectedTrace(options.start, answers)
             /\ Len(answers) = options.end - options.start + 1

C10_Witness ==
    /\ pc = "cached"
    /\ options = [start |-> 1, end |-> 2]
    /\ Len(answers) = 2
    /\ Len(answers[1]) = 1
    /\ Len(answers[2]) = 1
    /\ Len(trace) = 10
    /\ trace[6] = Event("call", "getDelta", 2)
    /\ trace[10] = Event("put", "run", answers[2][1].id)

\* C11: once a getDelta or getFeatureHistory call has failed, cache has ended
\* in that error: the failed call is the last event (no later call, no later
\* put), nothing is outstanding, and the store is not handed on (iterate has
\* read and written nothing).
C11_RemoteFailureAborts ==
    error = "RemoteFetchError"
        => /\ pc = "cacheFailed"
           /\ outstanding = {}
           /\ trace # <<>> /\ trace[Len(trace)].ev = "call"
           /\ scanned = {}
           /\ sink = <<>>

C11_Witness ==
    /\ error = "RemoteFetchError"
    /\ pc = "cacheFailed"
    /\ DOMAIN db = {1}
    /\ trace[Len(trace)] = Event("call", "getDelta", 2)

\* ------------------------------------------------ createCache(): the files
InitStores == InverseIdle /\ PipelineIdle /\ StoresIdle

\* createCache() of run r (lines 183-195): new Sqlite(name) opens the file
\* of that name, making it when there is none, and CREATE TABLE throws when
\* the file already has the table
CreateCache(r) ==
    /\ runs[r].state = "idle"
    /\ \E token \in RandomTokens :
          IF token \in DOMAIN files
          THEN /\ runs' = [runs EXCEPT ![r] = [state |-> "initFailed", token |-> token]]
               /\ UNCHANGED files
          ELSE /\ runs' = [runs EXCEPT ![r] = [state |-> "open", token |-> token]]
               /\ files' = [t \in DOMAIN files \cup {token} |->
                              IF t = token THEN [creator |-> r, rows |-> {}]
                              ELSE files[t]]
    /\ UNCHANGED inverseVars
    /\ UNCHANGED pipelineVars

\* stmt.run of run r on the database createCache() gave it (line 168)
StorePut(r) ==
    /\ runs[r].state = "open"
    /\ \E id \in EntityIds :
          LET file == files[runs[r].token]
          IN IF id \in { row.id : row \in file.rows }
             THEN /\ runs' = [runs EXCEPT ![r].state = "putFailed"]
                  /\ UNCHANGED files
             ELSE /\ files' = [files EXCEPT ![runs[r].token].rows =
                                  @ \cup {[id |-> id, by |-> r]}]
                  /\ UNCHANGED runs
    /\ UNCHANGED inverseVars
    /\ UNCHANGED pipelineVars

NextStores == \E r \in Runs : CreateCache(r) \/ StorePut(r)

SpecStores == InitStores /\ [][NextStores]_vars

\* C12 (as stated): the stores createCache gave to two runs are at different
\* locations, and no run's initialize or put acts on a file another run made.
C12_StoresNeverCollide ==
    /\ \A r1, r2 \in Runs :
          (r1 # r2 /\ runs[r1].state # "idle" /\ runs[r2].state # "idle")
              => runs[r1].token # runs[r2].token
    /\ \A r \in Runs :
          runs[r].state # "idle" => files[runs[r].token].creator = r

\* the features the answered deltas list, in the order cache() meets them
RECURSIVE Flatten(_)
Flatten(ans) == IF ans = <<>> THEN <<>> ELSE Head(ans) \o Flatten(Tail(ans))

\* C13: the row written for an entity holds the version its delta reported
\* and the whole fetched history, whether or not that version is the length
\* or the highest version of the history; every first fetch of an id is
\* followed by its put.
C13_StoredAsReported ==
    /\ \A k \in 1..Len(fetched) :
          LET feat == Flatten(answers)[k]
          IN /\ fetched[k].id = feat.id
             /\ (\A m \in 1..(k - 1) : fetched[m].id # feat.id)
                   => /\ feat.id \in DOMAIN db
                      /\ db[feat.id] = [version |-> feat.version,
                                        history |-> JSONstringify(fetched[k].history)]
    /\ DOMAIN db \subseteq { fetched[k].id : k \in 1..Len(fetched) }

C13_Witness ==
    /\ pc = "cached"
    /\ 1 \in DOMAIN db
    /\ db[1].version = 1
    /\ Len(JSONparse(db[1].history)) = 2
    /\ Flatten(answers)[1] = [id |-> 1, version |-> 1]

\* --------------------------------------------------- iterate(): properties
\* the history of row id with each wrapper replaced by its feat record, and
\* what inverse makes of it at the row's version
RowHistory(id) ==
    LET w == JSONparse(db[id].history) IN [k \in 1..Len(w) |-> w[k].feat]
RowInverse(id) == Inverse(RowHistory(id), Num(db[id].version)).outcome

\* the ids of S in ascending order (the order of the scan)
RECURSIVE AscendingIds(_)
AscendingIds(S) ==
    IF S = {} THEN <<>>
    ELSE LET least == CHOOSE id \in S : \A other \in S : id <= other
         IN <<least>> \o AscendingIds(S \ {least})

\* the lines of the rows S, in scan order
Lines(S) ==
    [k \in 1..Cardinality(S) |-> JSONstringify(RowInverse(AscendingIds(S)[k]).value)]

\* the rows read are the first rows of the scan
ReadInOrder ==
    \A id \in scanned : \A other \in DOMAIN db : other < id => other \in scanned

\* C14: when inverse fails on a row, iterate ends with that failure: no row
\* after it is read, and the sink holds exactly the lines of the rows before
\* it.
C14_FailFast ==
    \A id \in scanned :
        RowInverse(id).threw # ""
            => /\ pc = "iterateFailed"
               /\ error = RowInverse(id).threw
               /\ scanned = { other \in DOMAIN db : other <= id }
               /\ Len(sink) = Cardinality(scanned) - 1
               /\ sink = Lines(scanned \ {id})

C14_Witness ==
    /\ pc = "iterateFailed"
    /\ scanned = {1, 2}
    /\ RowInverse(1).threw = ""
    /\ RowInverse(2).threw = "DirtyRevertUnsupported"
    /\ Len(sink) = 1

\* C15: while inverse succeeds on every row read, the sink holds exactly one
\* line per row read, in scan order, each the serialization of inverse of
\* the row's unwrapped history at the row's version; the line of a row is
\* there before the next row is read, and iterate returns only when every
\* row has been read.
C15_OneLinePerEntry ==
    (\A id \in scanned : RowInverse(id).threw = "")
        => /\ ReadInOrder
           /\ sink = Lines(scanned)
           /\ pc = "iterated" => scanned = DOMAIN db

C15_Witness ==
    /\ pc = "iterated"
    /\ scanned = {1, 2}
    /\ Len(sink) = 2
    /\ JSONparse(sink[1]).id = 1
    /\ JSONparse(sink[1]).action = "delete"
    /\ JSONparse(sink[2]).id = 2
    /\ JSONparse(sink[2]).action = "modify"

\* cache() has returned the database
Handed == pc \in {"cached", "iterating", "iterated", "iterateFailed"}

\* C16: the database is handed on only when every put of the range is done
\* and no call is outstanding; iterate reads and writes lines only on a
\* database that was handed on; and from then on the rows stay as they are
\* and no call or put is made.
C16_PhasesDisjoint ==
    /\ [](Handed => /\ outstanding = {}
                    /\ Len(answers) = options.end - options.start + 1
                    /\ DOMAIN db = { Flatten(answers)[k].id : k \in 1..Len(Flatten(answers)) }
                    /\ trace = ExpectedTrace(options.start, answers))
    /\ []((scanned # {} \/ sink # <<>>) => Handed)
    /\ [][Handed => (Handed' /\ db' = db /\ trace' = trace /\ outstanding' = {})]_vars

C16_Witness ==
    /\ pc = "iterateFailed"
    /\ scanned = {1}
    /\ DOMAIN db = {1, 2}
    /\ Len(trace) = 10

\* ------------------------------------------ inverse(): order of the checks
\* index of the record that comes last in ascending version order, input
\* order kept among equal versions
LastIndex(h) ==
    CHOOSE k \in 1..Len(h) :
        \A m \in 1..Len(h) :
            \/ VersionOrOne(h[m]) < VersionOrOne(h[k])
            \/ VersionOrOne(h[m]) = VersionOrOne(h[k]) /\ m <= k

\* C17: for a history of two or more records whose first record in version
\* order is a create and target version = length, a latest record whose
\* action is not modify, delete or restore (a second create, or anything
\* else) makes inverse fail with UnsupportedAction, and no record is
\* returned.
C17_UnsupportedLatest ==
    (/\ Called
     /\ Len(given) >= 2
     /\ given[FirstIndex(given)].action = "create"
     /\ version = Num(Len(given))
     /\ given[LastIndex(given)].action \notin {"modify", "delete", "restore"})
        => outcome = Threw("UnsupportedAction")

C17_Witness ==
    /\ Called
    /\ Len(given) = 3
    /\ UniqueVersions(given)
    /\ LastIndex(given) = 2
    /\ given[2].action = "create"
    /\ given[FirstIndex(given)].action = "create"
    /\ version = Num(3)
    /\ outcome = Threw("UnsupportedAction")

\* the error the first failing check of the list gives, "" if none fails
FirstFailure(h, v) ==
    IF Len(h) = 0 THEN "EmptyHistory"
    ELSE IF v.tag # "number" \/ v.n = 0 THEN "InvalidVersion"
    ELSE IF v.n > Len(h) THEN "VersionOutOfRange"
    ELSE IF h[FirstIndex(h)].action # "create" THEN "MissingCreateAction"
    ELSE IF v.n < Len(h) THEN "DirtyRevertUnsupported"
    ELSE IF Len(h) >= 2 /\ h[LastIndex(h)].action \notin {"modify", "delete", "restore"}
         THEN "UnsupportedAction"
    ELSE ""

\* C18: inverse reports the first failing check in the order EmptyHistory,
\* InvalidVersion, VersionOutOfRange, MissingCreateAction,
\* DirtyRevertUnsupported, UnsupportedAction; an input gives either that one
\* error and no record, or a record and no error; and a record is returned
\* only when the target version is the length and the first record in
\* version order is a create.
C18_CheckOrder ==
    Called
        => /\ outcome.threw = FirstFailure(given, version)
           /\ outcome.threw # "" => outcome.value = NoValue
           /\ outcome.threw = ""
                 => /\ outcome.value # NoValue
                    /\ version = Num(Len(given))
                    /\ given[FirstIndex(given)].action = "create"

C18_Witness ==
    /\ Called
    /\ Len(given) = 3
    /\ given[FirstIndex(given)].action = "other"
    /\ given[LastIndex(given)].action = "other"
    /\ version = Num(2)
    /\ outcome = Threw("MissingCreateAction")

\* ------------------------------------------------- the store, termination
\* the positions in the trace of the puts of entity id
Puts(id) == { k \in 1..Len(trace) : trace[k] = Event("put", "run", id) }

\* C19: the store holds at most one row per entity id (no id is put twice,
\* and the ids in the store are the ids put); every id in the store is
\* listed by a fetched delta and its getFeatureHistory was answered before
\* its put; before the first put, so right after createCache, the store is
\* empty.
C19_StoreInvariant ==
    /\ \A id \in EntityIds :
          /\ Cardinality(Puts(id)) <= 1
          /\ id \in DOMAIN db <=> Puts(id) # {}
    /\ \A id \in DOMAIN db :
          /\ id \in ReferencedIds
          /\ \E k \in 1..Len(fetched) : fetched[k].id = id
          /\ \A p \in Puts(id) :
                p > 1 /\ trace[p - 1] = Event("done", "getFeatureHistory", id)
    /\ (\A id \in EntityIds : Puts(id) = {}) => db = EmptyDb

C19_Witness ==
    /\ pc = "awaitHistory"
    /\ DOMAIN db = {2}
    /\ outstanding = {Call("getFeatureHistory", 1)}
    /\ ReferencedIds = {1, 2}

\* cache() has ended, by returning the database or by an error
CacheEnded == pc \notin {"idle", "awaitDelta", "awaitHistory"}

\* the events of the trace of one kind
EventsOf(ev, op) == { k \in 1..Len(trace) : trace[k].ev = ev /\ trace[k].op = op }

\* C20: when every outstanding call is answered in the end, a cache that was
\* called ends; when it returns the database it has made exactly
\* end - start + 1 getDelta calls and one getFeatureHistory call and one put
\* per listed feature; with start > end it makes no call and returns an empty
\* database; and while a call is outstanding cache has not ended, which it
\* does only at the answer of a call.
C20_CacheEnds ==
    /\ (pc # "idle") ~> CacheEnded
    /\ [](Handed => /\ Cardinality(EventsOf("call", "getDelta"))
                          = options.end - options.start + 1
                    /\ Cardinality(EventsOf("call", "getFeatureHistory"))
                          = Len(Flatten(answers))
                    /\ Cardinality(EventsOf("put", "run")) = Len(Flatten(answers)))
    /\ []((Handed /\ options.start > options.end) => (trace = <<>> /\ db = EmptyDb))
    /\ [](outstanding # {} => ~CacheEnded)
    /\ [][(pc \in {"awaitDelta", "awaitHistory"} /\ CacheEnded')
             => (outstanding # {} /\ outstanding' = {})]_vars

C20_Witness ==
    /\ pc = "cached"
    /\ options = [start |-> 1, end |-> 2]
    /\ answers[1] = <<>>
    /\ Len(answers[2]) = 2
    /\ Cardinality(EventsOf("put", "run")) = 2

====
